---- MODULE Spec2Model ----
(***************************************************************************)
(* Skygear IoT container (src/lib/index.js): device registration, the two  *)
(* publish/subscribe handlers and the status report.                       *)
(*                                                                         *)
(* JavaScript runs each callback to completion, so one action of the model *)
(* is one synchronous segment of the code: from a call or from the         *)
(* settlement of an awaited promise up to the next await or return.        *)
(* The backend client `skygear` is the environment: every promise it       *)
(* returns may resolve or reject, and its transport delivers a message by  *)
(* calling the handlers registered on the channel one after the other,     *)
(* with nothing else running in between.  A status report that nobody in   *)
(* the SDK awaits (a handler's, a caller's) is recorded with the way the   *)
(* backend is going to settle it.                                          *)
(***************************************************************************)
EXTENDS Integers, Sequences, FiniteSets, TLC

VARIABLES
  currentUser,  \* skygear.currentUser: Null or the authenticated user's id
  hasRole,      \* skygear.currentUser.hasRole('iot-device'), as cached by the client
  serverRoles,  \* users holding the role 'iot-device' on the backend
  device,       \* this._device
  inits,        \* the initDevice calls made so far, each with its locals and position
  listeners,    \* handlers registered with skygear.on, in registration order
  running,      \* the synchronous entry into the SDK that is running (a handler the
                \* transport called, a caller's reportStatus), and what it did
  sink          \* the logging sink: its _write calls and the stream's buffer

vars == <<currentUser, hasRole, serverRoles, device, inits, listeners, running, sink>>

(***************************************************************************)
(* Bounds of the model                                                     *)
(***************************************************************************)
MaxInit == 2      \* initDevice calls

(***************************************************************************)
(* Values                                                                  *)
(***************************************************************************)
Null == "null"
\* The model follows one session of the backend client: one user, who logs in
\* once and may or may not hold the role 'iot-device' already.
Users == {"u1"}
Metadata == {Null, "m1"}

\* Strings the code inspects character by character are sequences of characters.
Prefix == <<"i", "o", "t", "-">>
Restart == <<"r", "e", "s", "t", "a", "r", "t">>
Shutdown == <<"s", "h", "u", "t", "d", "o", "w", "n">>
Unknown == <<"u", "n", "k", "n", "o", "w", "n">>
TwoLines == <<"a", "\n", "b">>
Empty == <<>>
HasOwnProperty == <<"h", "a", "s", "O", "w", "n", "P", "r", "o", "p", "e", "r", "t", "y">>

\* The platform descriptors callers pass to initDevice: the own keys of
\* platform.action, platform.deviceSecret and platform.appVersion.
PlatformIds == {"p1", "p2"}
Platform(p) ==
  CASE p = "p1" -> [action |-> {Restart, Shutdown, Empty, TwoLines},
                    deviceSecret |-> "s1", appVersion |-> "1.0"]
    [] p = "p2" -> [action |-> {Restart, HasOwnProperty},
                    deviceSecret |-> "s2", appVersion |-> "2.0"]

Last(s) == s[Len(s)]
Range(seq) == {seq[k] : k \in 1..Len(seq)}

(***************************************************************************)
(* Records, access control and the channel name                            *)
(***************************************************************************)
\* new skygear.ACL([...]): the set of <<role, level>> entries.
deviceRecordACL ==
  {<<"iot-device", "write">>, <<"iot-manager", "write">>}

deviceLoginRecordACL ==
  {<<"iot-device", "write">>, <<"iot-manager", "read">>}

\* new skygear.Record(type, data): data is the set of <<key, value>> pairs; the
\* record carries no access control of this code's choosing until setAccess.
Record(type, data) == [type |-> type, data |-> data, acl |-> {}]

\* record.setAccess(acl) replaces the record's access control.
setAccess(rec, acl) == [rec EXCEPT !.acl = acl]

\* crypto.createHash('sha256').update(secret).digest('hex'): a deterministic
\* function of the secret, distinct for the distinct secrets of the model.
Sha256Hex(secret) == "sha256hex(" \o secret \o ")"

pubsubChannelOf(secret) == "iot-" \o Sha256Hex(secret)

RequestStatus == "iot-request-status"

\* The device record of the registration branch.
RegistrationRecord(deviceID, p) ==
  setAccess(
    Record("iot_device", {<<"_id", "iot_device/" \o deviceID>>,
                          <<"secret", Platform(p).deviceSecret>>,
                          <<"active", "true">>}),
    deviceRecordACL)

\* The records of the login save, in the order they are passed to publicDB.save.
LoginRecord(deviceID, p) ==
  setAccess(
    setAccess(
      Record("iot_device_login", {<<"deviceID", deviceID>>,
                                  <<"sdkVersion", "sdkVersion">>,
                                  <<"appVersion", Platform(p).appVersion>>}),
      deviceLoginRecordACL),
    deviceRecordACL)

LoginDeviceRecord(deviceID) ==
  Record("iot_device", {<<"_id", "iot_device/" \o deviceID>>,
                        <<"login", "Reference(iot_device_login)">>})

LoginSave(deviceID, p) == <<LoginRecord(deviceID, p), LoginDeviceRecord(deviceID)>>

(***************************************************************************)
(* The handlers registered by initDevice                                   *)
(***************************************************************************)
\* The `action` values of the messages the transport delivers: the field may be
\* absent, a string, or (the transport decodes arbitrary JSON) a number.
Absent == [type |-> "undefined", str |-> <<>>, num |-> 0]
Str(s) == [type |-> "string", str |-> s, num |-> 0]
Num(n) == [type |-> "number", str |-> <<>>, num |-> n]

ActionValues ==
  {Absent, Num(7), Str(Restart), Str(Prefix)}
    \cup {Str(Prefix \o c) : c \in {Restart, Unknown, TwoLines}}

\* The payloads of the events delivered on the status-request channel.
StatusRequests == {Absent, Str(Prefix \o Restart)}

\* The test for a missing action left out.
TruthyAlways(a) == TRUE

\* JavaScript truthiness of the action value, as `!action` tests it.
Truthy(a) ==
  CASE a.type = "undefined" -> FALSE
    [] a.type = "string" -> a.str # <<>>
    [] a.type = "number" -> a.num # 0

\* `.` matches any character except a line terminator.
LineTerminators == {"\n", "\r"}

\* The whole match taken for the captured group.
MatchWhole(s) ==
  IF /\ Len(s) > Len(Prefix)
     /\ SubSeq(s, 1, Len(Prefix)) = Prefix
     /\ \A k \in (Len(Prefix) + 1)..Len(s) : s[k] \notin LineTerminators
  THEN <<s>>
  ELSE <<>>

\* action.match(/^iot-(.+)$/): <<>> for null, else the one captured group.
Match(s) ==
  IF /\ Len(s) > Len(Prefix)
     /\ SubSeq(s, 1, Len(Prefix)) = Prefix
     /\ \A k \in (Len(Prefix) + 1)..Len(s) : s[k] \notin LineTerminators
  THEN <<SubSeq(s, Len(Prefix) + 1, Len(s))>>
  ELSE <<>>

\* What one synchronous run did: the callables of platform.action it invoked
\* (with the number of arguments passed), what it wrote to the console, the
\* reportStatus calls it made (their metadata) and whether it threw.
Outcome(invoked, logs, reported, threw) ==
  [invoked |-> invoked, logs |-> logs, reported |-> reported, threw |-> threw]

Invocation(cmd, nargs) == [cmd |-> cmd, nargs |-> nargs]
Log(level, about) == [level |-> level, about |-> about]

\* The callables of platform.action are the caller's code: one may return or
\* throw (callee), and an own key 'hasOwnProperty' shadows the inherited
\* method, so that the handler's test calls the caller's code (hop).
CalleeResults == {"returns", "throws"}
HopResults == {"true", "false", "throws"}

\* skygear.on(pubsubChannel, ({action}) => {...}) of the call with platform p.
CommandHandler(p, a, hop, callee) ==
  LET keys == Platform(p).action IN
  IF ~Truthy(a) THEN Outcome(<<>>, <<Log("error", <<>>)>>, <<>>, FALSE)
  ELSE IF a.type # "string" THEN Outcome(<<>>, <<>>, <<>>, TRUE)
  ELSE
    LET match == Match(a.str) IN
    IF match = <<>> THEN Outcome(<<>>, <<>>, <<>>, FALSE)
    ELSE
      LET cmd == match[1]
          shadowed == HasOwnProperty \in keys
          test == IF shadowed THEN <<Invocation(HasOwnProperty, 1)>> ELSE <<>>
          has == IF shadowed THEN hop = "true" ELSE cmd \in keys
      IN
      IF shadowed /\ hop = "throws" THEN Outcome(test, <<>>, <<>>, TRUE)
      ELSE IF has THEN
        IF cmd \in keys
        THEN Outcome(test \o <<Invocation(cmd, 0)>>, <<>>, <<>>, callee = "throws")
        ELSE Outcome(test, <<>>, <<>>, TRUE)
      ELSE Outcome(test, <<Log("warn", cmd)>>, <<>>, FALSE)

\* The status-request handler drops the promise reportStatus returns: it has
\* no catch, no await and no return, and reportStatus itself attaches no
\* rejection handler to the promise of skygear.lambda.
StatusHandlerCatches == FALSE

\* reportStatus called twice by the handler.
StatusHandlerTwice == Outcome(<<>>, <<>>, <<Null, Null>>, FALSE)

\* skygear.on('iot-request-status', _ => { this.reportStatus() })
StatusHandler == Outcome(<<>>, <<>>, <<Null>>, FALSE)

\* The caller's metadata dropped from the payload.
StatusPayloadNoMetadata(dev, metadata) ==
  [deviceID |-> dev.id, status |-> "online", metadata |-> Null]

\* The payload of reportStatus(metadata) for the session as it is now.
StatusPayload(dev, metadata) ==
  [deviceID |-> dev.id, status |-> "online", metadata |-> metadata]

NoPayload == [deviceID |-> Null, status |-> Null, metadata |-> Null]

(***************************************************************************)
(* initDevice: its locals, its awaited steps and its synchronous segments  *)
(***************************************************************************)
\* One entry of the record of what a call did, in order.
Ev(op, name, recs) == [op |-> op, name |-> name, recs |-> recs]

\* The login check left out.
LoginRequiredSkipped(user) == FALSE

\* if(!skygear.currentUser) throw Error(...)
LoginRequired(user) == user = Null

\* The role granted before the device record is saved, and no whoami.
RegistrationStepsGrantFirst == <<"addRole", "saveDevice">>

\* The awaited backend steps of the registration branch, in program order.
RegistrationSteps == <<"saveDevice", "addRole", "whoami">>

\* The registration steps run whatever the role test says.
StepsAlwaysRegister(register) == RegistrationSteps \o <<"saveLogin">>

\* The awaited backend steps of a call, given the outcome of the role test.
Steps(register) ==
  (IF register THEN RegistrationSteps ELSE <<>>) \o <<"saveLogin">>

\* The backend call a step issues.
CallOf(c, step) ==
  CASE step = "saveDevice" ->
         Ev("save", "publicDB", <<RegistrationRecord(c.deviceID, c.platform)>>)
    [] step = "addRole" -> Ev("lambda", "iot:add-device-role", <<>>)
    [] step = "whoami" -> Ev("whoami", "", <<>>)
    [] step = "saveLogin" -> Ev("save", "publicDB", LoginSave(c.deviceID, c.platform))

\* The call issues the k-th of its steps and suspends on it.
Issue(c, k) ==
  [c EXCEPT !.pc = Steps(c.register)[k], !.at = k,
            !.grantee = IF Steps(c.register)[k] = "addRole" THEN currentUser ELSE @,
            !.trace = Append(@, CallOf(c, Steps(c.register)[k]))]

\* The locals of a call that passed the login check, before its first step.
Locals(p) ==
  [platform |-> p, deviceID |-> currentUser,
   pubsubChannel |-> pubsubChannelOf(Platform(p).deviceSecret),
   register |-> ~hasRole, grantee |-> Null, pc |-> "start", at |-> 0, trace |-> <<>>,
   reported |-> NoPayload]

\* A call that threw at the login check: its promise is rejected at once.
Thrown(p) ==
  [platform |-> p, deviceID |-> Null, pubsubChannel |-> Null,
   register |-> FALSE, grantee |-> Null, pc |-> "rejected", at |-> 0,
   trace |-> <<Ev("throw", "login required", <<>>)>>, reported |-> NoPayload]

\* The rejection caught and the call going on with its next step.
RejectedSwallowed(c) ==
  IF c.at < Len(Steps(c.register)) /\ c.pc \in Range(Steps(c.register))
  THEN Issue([c EXCEPT !.trace = Append(@, Ev("rejected", c.pc, <<>>))], c.at + 1)
  ELSE [c EXCEPT !.pc = "rejected", !.trace = Append(@, Ev("rejected", c.pc, <<>>))]

\* The awaited promise rejected: the async function rejects and runs no further.
Rejected(c) ==
  [c EXCEPT !.pc = "rejected", !.trace = Append(@, Ev("rejected", c.pc, <<>>))]

\* The awaited promise resolved.
Resolved(c) == [c EXCEPT !.trace = Append(@, Ev("resolved", c.pc, <<>>))]

\* Hooks registered only when none is registered yet.
HooksUnlessRegistered(i, c) ==
  IF listeners = <<>>
  THEN <<[channel |-> RequestStatus, kind |-> "status", init |-> i, platform |-> c.platform],
         [channel |-> c.pubsubChannel, kind |-> "command", init |-> i, platform |-> c.platform]>>
  ELSE <<>>

\* The two handlers a call registers, in the order of its skygear.on calls.
Hooks(i, c) ==
  <<[channel |-> RequestStatus, kind |-> "status", init |-> i, platform |-> c.platform],
    [channel |-> c.pubsubChannel, kind |-> "command", init |-> i, platform |-> c.platform]>>

\* The channel name left out of the batch.
SetSDKStateNoChannel(dev, c) ==
  [dev EXCEPT !.id = c.deviceID, !.platform = c.platform]

\* The channel name written only when the session has none yet.
SetSDKStateKeepChannel(dev, c) ==
  [dev EXCEPT !.id = c.deviceID, !.platform = c.platform,
              !.pubsubChannel = IF @ = Null THEN c.pubsubChannel ELSE @]

\* // set SDK state
SetSDKState(dev, c) ==
  [dev EXCEPT !.id = c.deviceID, !.platform = c.platform,
              !.pubsubChannel = c.pubsubChannel]

\* The SDK state set before the hooks are registered.
FinishSetFirst(c, dev) ==
  [c EXCEPT !.pc = "report", !.reported = StatusPayload(dev, Null),
            !.trace = @ \o <<Ev("set", "device", <<>>),
                             Ev("on", RequestStatus, <<>>),
                             Ev("on", c.pubsubChannel, <<>>),
                             Ev("lambda", "iot:report-status", <<>>)>>]

\* The status report made before the SDK state is set: its payload is read
\* from the session as the call found it.
FinishReportFirst(c, dev) ==
  [c EXCEPT !.pc = "report", !.reported = StatusPayload(device, Null),
            !.trace = @ \o <<Ev("on", RequestStatus, <<>>),
                             Ev("on", c.pubsubChannel, <<>>),
                             Ev("lambda", "iot:report-status", <<>>),
                             Ev("set", "device", <<>>)>>]

\* The segment after the login save: hooks, SDK state, the status report, whose
\* payload is read from the session dev.
Finish(c, dev) ==
  [c EXCEPT !.pc = "report", !.reported = StatusPayload(dev, Null),
            !.trace = @ \o <<Ev("on", RequestStatus, <<>>),
                             Ev("on", c.pubsubChannel, <<>>),
                             Ev("set", "device", <<>>),
                             Ev("lambda", "iot:report-status", <<>>)>>]

Awaiting(i, step) == i \in 1..Len(inits) /\ inits[i].pc = step

\* The call goes on after its awaited step resolved: to its next step.
Advance(c) == Issue(Resolved(c), c.at + 1)

(***************************************************************************)
(* The logging sink: SkygearWritable, the stream behind skygearIoT.console *)
(*                                                                         *)
(* stream.Writable hands the sink one chunk at a time: it encodes the      *)
(* written string as UTF-8, calls _write, and buffers what is written      *)
(* meanwhile until _write's callback has been invoked; a callback invoked  *)
(* with an error destroys the stream and drops the buffer.                 *)
(***************************************************************************)
MaxWrite == 3     \* stream.write calls

\* The character U+00E9, named by its code point; its UTF-8 form is two bytes.
EAcute == "e9"
Texts == {<<"a", "\n">>, <<EAcute, "\n">>}

\* Buffer.from(string, 'utf8'): the bytes, each named in hexadecimal.
Utf8(ch) ==
  CASE ch = "a" -> <<"61">>
    [] ch = "\n" -> <<"0a">>
    [] ch = EAcute -> <<"c3", "a9">>

RECURSIVE Encode(_)
Encode(text) == IF text = <<>> THEN <<>> ELSE Utf8(Head(text)) \o Encode(Tail(text))

\* U+FFFD, which decoding puts for a byte that is no UTF-8.
Replacement == "fffd"

\* chunk.toString(): the bytes decoded as UTF-8.
RECURSIVE toString(_)
toString(chunk) ==
  IF chunk = <<>> THEN <<>>
  ELSE IF Head(chunk) = "c3" /\ Len(chunk) > 1 /\ chunk[2] = "a9"
       THEN <<EAcute>> \o toString(Tail(Tail(chunk)))
  ELSE IF Head(chunk) = "61" THEN <<"a">> \o toString(Tail(chunk))
  ELSE IF Head(chunk) = "0a" THEN <<"\n">> \o toString(Tail(chunk))
  ELSE <<Replacement>> \o toString(Tail(chunk))

\* JavaScript values that reach the callback or reject the promise.
JsUndefined == [type |-> "undefined", text |-> ""]
JsString(t) == [type |-> "string", text |-> t]
JsObject(props, cyclic) == [type |-> "object", props |-> props, cyclic |-> cyclic]

\* What the promise of skygear.lambda may be rejected with: the client's error
\* object, an Error instance (no enumerable property), an object that refers
\* to itself, or nothing at all.
SkygearError == JsObject(<<<<"status", "500">>, <<"error", "\"UnexpectedError\"">>>>, FALSE)
ErrorInstance == JsObject(<<>>, FALSE)
Cyclic == JsObject(<<<<"status", "500">>>>, TRUE)
RejectValues == {SkygearError, ErrorInstance, Cyclic, JsUndefined}

RECURSIVE Members(_)
Members(props) ==
  IF props = <<>> THEN ""
  ELSE "\n  \"" \o Head(props)[1] \o "\": " \o Head(props)[2]
         \o (IF Len(props) > 1 THEN "," ELSE "") \o Members(Tail(props))

\* JSON.stringify(e, null, 2): undefined for undefined, a TypeError for a
\* cyclic structure, else the text indented by two spaces.
Stringify(e) ==
  IF e.type = "undefined" THEN [threw |-> FALSE, value |-> JsUndefined]
  ELSE IF e.cyclic THEN [threw |-> TRUE, value |-> JsUndefined]
  ELSE [threw |-> FALSE,
        value |-> JsString(IF e.props = <<>> THEN "{}"
                           ELSE "{" \o Members(e.props) \o "\n}")]

\* One _write call: the text written, the chunk the stream passed, the backend
\* calls issued, how the 'iot:log' call settled, the arguments of each
\* invocation of callback, and whether the rejection handler threw.
Written(text) ==
  [text |-> text, chunk |-> Encode(text), rpc |-> <<>>, settled |-> "pending",
   callbacks |-> <<>>, threw |-> FALSE]

\* _write(chunk, encoding, callback), up to its return.
Write(w) ==
  [w EXCEPT !.rpc = Append(@, [name |-> "iot:log", arg |-> toString(w.chunk)])]

\* _ => callback()
OnFulfilled(w) ==
  [w EXCEPT !.settled = "resolved", !.callbacks = Append(@, JsUndefined)]

\* e => callback(JSON.stringify(e,null,2))
OnRejected(w, e) ==
  IF Stringify(e).threw
  THEN [w EXCEPT !.settled = "rejected", !.threw = TRUE]
  ELSE [w EXCEPT !.settled = "rejected", !.callbacks = Append(@, Stringify(e).value)]

NoSink == [buffered |-> <<>>, writes |-> <<>>, destroyed |-> FALSE]

\* A _write call whose callback has not been invoked.
Busy == sink.writes # <<>> /\ Last(sink.writes).callbacks = <<>>

\* The stream after the callback of its current _write call was (or was not)
\* invoked: on no error the next buffered chunk is written, on an error the
\* stream is destroyed.
AfterCallback(writes) ==
  LET w == Last(writes) IN
  IF w.callbacks = <<>> THEN [sink EXCEPT !.writes = writes]
  ELSE IF Last(w.callbacks).type = "undefined"
  THEN IF sink.buffered = <<>> THEN [sink EXCEPT !.writes = writes]
       ELSE [sink EXCEPT !.writes = Append(writes, Write(Written(Head(sink.buffered)))),
                         !.buffered = Tail(@)]
  ELSE [sink EXCEPT !.writes = writes, !.buffered = <<>>, !.destroyed = TRUE]

(***************************************************************************)
(* Initial state: new SkygearIoT(skygear), nobody logged in                *)
(***************************************************************************)
Idle == running.kind = "idle"
NoRun == [kind |-> "idle", channel |-> Null, action |-> Absent, at |-> 0, reports |-> 0,
          outcome |-> Outcome(<<>>, <<>>, <<>>, FALSE), sent |-> <<>>]

\* The constructor creates id, platform and pubsubChannel; loginID, which the
\* doc comment of `device` declares, is never created: it reads as unset.
Init ==
  /\ currentUser = Null
  /\ hasRole = FALSE
  /\ serverRoles \in SUBSET Users
  /\ device = [id |-> Null, platform |-> Null, loginID |-> Null, pubsubChannel |-> Null]
  /\ inits = <<>>
  /\ listeners = <<>>
  /\ running = NoRun
  /\ sink = NoSink

(***************************************************************************)
(* The backend client's session (environment)                              *)
(***************************************************************************)
Login(u) ==
  /\ Idle
  /\ currentUser = Null
  /\ currentUser' = u
  /\ hasRole' = (u \in serverRoles)
  /\ UNCHANGED <<serverRoles, device, inits, listeners, running, sink>>

(***************************************************************************)
(* initDevice(platform)                                                    *)
(***************************************************************************)
\* The call, up to its first await (or its throw).
InitDevice(p) ==
  /\ Idle
  /\ Len(inits) < MaxInit
  /\ inits' = Append(inits, IF LoginRequired(currentUser) THEN Thrown(p)
                            ELSE Issue(Locals(p), 1))
  /\ UNCHANGED <<currentUser, hasRole, serverRoles, device, listeners, running, sink>>

\* await skygear.publicDB.save(deviceRecord) resolved.
SaveDeviceResolved(i) ==
  /\ Idle
  /\ Awaiting(i, "saveDevice")
  /\ inits' = [inits EXCEPT ![i] = Advance(@)]
  /\ UNCHANGED <<currentUser, hasRole, serverRoles, device, listeners, running, sink>>

\* await skygear.lambda('iot:add-device-role', []) resolved: the backend has
\* granted the role to the user the request was made for.
AddRoleResolved(i) ==
  /\ Idle
  /\ Awaiting(i, "addRole")
  /\ serverRoles' = serverRoles \cup ({inits[i].grantee} \cap Users)
  /\ inits' = [inits EXCEPT ![i] = Advance(@)]
  /\ UNCHANGED <<currentUser, hasRole, device, listeners, running, sink>>

\* await skygear.whoami() resolved: the cached user is the backend's again.
WhoamiResolved(i) ==
  /\ Idle
  /\ Awaiting(i, "whoami")
  /\ hasRole' = IF currentUser = Null THEN hasRole ELSE currentUser \in serverRoles
  /\ inits' = [inits EXCEPT ![i] = Advance(@)]
  /\ UNCHANGED <<currentUser, serverRoles, device, listeners, running, sink>>

\* The status report issued with the hooks and the SDK state still to come.
SaveLoginResolvedReportFirst(i) ==
  /\ Idle
  /\ Awaiting(i, "saveLogin")
  /\ inits' = [inits EXCEPT ![i] = Finish(Resolved(@), device)]
  /\ UNCHANGED <<currentUser, hasRole, serverRoles, device, listeners, running, sink>>

\* await skygear.publicDB.save([loginRecord, deviceRecord]) resolved: register
\* the hooks, set the SDK state, call reportStatus() and await it.
SaveLoginResolved(i) ==
  /\ Idle
  /\ Awaiting(i, "saveLogin")
  /\ listeners' = listeners \o Hooks(i, inits[i])
  /\ device' = SetSDKState(device, inits[i])
  /\ inits' = [inits EXCEPT ![i] = Finish(Resolved(@), device')]
  /\ UNCHANGED <<currentUser, hasRole, serverRoles, running, sink>>

\* One of the awaited steps before the hooks rejected.
StepRejected(i) ==
  /\ Idle
  /\ i \in 1..Len(inits)
  /\ inits[i].pc \in {"saveDevice", "addRole", "whoami", "saveLogin"}
  /\ inits' = [inits EXCEPT ![i] = Rejected(@)]
  /\ UNCHANGED <<currentUser, hasRole, serverRoles, device, listeners, running, sink>>

(***************************************************************************)
(* reportStatus(metadata)                                                  *)
(***************************************************************************)
\* A status report nobody in the SDK awaits: its payload and the way the
\* backend settles it.
Sent(payload, settles) == [payload |-> payload, settles |-> settles]

\* A caller's reportStatus(metadata): the synchronous call.
ReportStatus(m) ==
  /\ Idle
  /\ \E settles \in {"resolved", "rejected"} :
       running' = [NoRun EXCEPT !.kind = "report", !.reports = 1,
                                !.outcome = Outcome(<<>>, <<>>, <<m>>, FALSE),
                                !.sent = <<Sent(StatusPayload(device, m), settles)>>]
  /\ UNCHANGED <<currentUser, hasRole, serverRoles, device, inits, listeners, sink>>

\* The backend settles the 'iot:report-status' call that the i-th initDevice
\* call awaits: the call resolves or rejects with it.
ReportSettled(i, result) ==
  /\ Idle
  /\ Awaiting(i, "report")
  /\ inits' = [inits EXCEPT ![i] =
                 IF result = "resolved"
                 THEN [Resolved(@) EXCEPT !.pc = "resolved"]
                 ELSE Rejected(@)]
  /\ UNCHANGED <<currentUser, hasRole, serverRoles, device, listeners, running, sink>>

(***************************************************************************)
(* Publish/subscribe deliveries                                            *)
(***************************************************************************)
On(channel) == SelectSeq(listeners, LAMBDA h : h.channel = channel)

Channels == {listeners[k].channel : k \in 1..Len(listeners)}

\* What the handler h does with a message whose action is a.
Run(h, a, hop, callee) ==
  IF h.kind = "status" THEN StatusHandler
  ELSE CommandHandler(h.platform, a, hop, callee)

\* The transport calls the k-th handler registered on the channel.
Call(channel, a, k, reports) ==
  LET h == On(channel)[k] IN
  running' \in
    {[kind |-> "deliver", channel |-> channel, action |-> a, at |-> k,
      reports |-> reports + Len(Run(h, a, hop, callee).reported),
      outcome |-> Run(h, a, hop, callee),
      sent |-> [j \in 1..Len(Run(h, a, hop, callee).reported) |->
                  Sent(StatusPayload(device, Run(h, a, hop, callee).reported[j]), settles)]] :
     hop \in HopResults, callee \in CalleeResults, settles \in {"resolved", "rejected"}}

\* A message arrives on a channel: the transport calls the first handler.
Deliver(channel, a) ==
  /\ Idle
  /\ channel \in Channels
  /\ a \in IF channel = RequestStatus THEN StatusRequests ELSE ActionValues
  /\ Call(channel, a, 1, 0)
  /\ UNCHANGED <<currentUser, hasRole, serverRoles, device, inits, listeners, sink>>

\* The handler returned (or threw): the transport calls the next one.
DeliverNext ==
  /\ running.kind = "deliver"
  /\ running.at < Len(On(running.channel))
  /\ Call(running.channel, running.action, running.at + 1, running.reports)
  /\ UNCHANGED <<currentUser, hasRole, serverRoles, device, inits, listeners, sink>>

\* The synchronous run is over: control is back in the event loop.
Returned ==
  /\ \/ running.kind = "report"
     \/ running.kind = "deliver" /\ running.at = Len(On(running.channel))
  /\ running' = NoRun
  /\ UNCHANGED <<currentUser, hasRole, serverRoles, device, inits, listeners, sink>>

(***************************************************************************)
(* Specification                                                           *)
(***************************************************************************)
Next ==
  \/ \E u \in Users : Login(u)
  \/ \E p \in PlatformIds : InitDevice(p)
  \/ \E i \in 1..MaxInit : SaveDeviceResolved(i)
  \/ \E i \in 1..MaxInit : AddRoleResolved(i)
  \/ \E i \in 1..MaxInit : WhoamiResolved(i)
  \/ \E i \in 1..MaxInit : SaveLoginResolved(i)
  \/ \E i \in 1..MaxInit : StepRejected(i)
  \/ \E m \in Metadata : ReportStatus(m)
  \/ \E i \in 1..MaxInit, result \in {"resolved", "rejected"} : ReportSettled(i, result)
  \/ \E channel \in Channels, a \in ActionValues : Deliver(channel, a)
  \/ DeliverNext
  \/ Returned

Spec == Init /\ [][Next]_vars

(***************************************************************************)
(* The logging sink on its own: writes and the settlements of its calls    *)
(***************************************************************************)
\* console.log(...) and the like: stream.write(text).
SinkWrite(text) ==
  /\ ~sink.destroyed
  /\ Len(sink.writes) + Len(sink.buffered) < MaxWrite
  /\ sink' = IF Busy THEN [sink EXCEPT !.buffered = Append(@, text)]
             ELSE [sink EXCEPT !.writes = Append(@, Write(Written(text)))]
  /\ UNCHANGED <<currentUser, hasRole, serverRoles, device, inits, listeners, running>>

\* The backend resolved the 'iot:log' call.
LogResolved ==
  /\ sink.writes # <<>>
  /\ Last(sink.writes).settled = "pending"
  /\ sink' = AfterCallback([sink.writes EXCEPT ![Len(sink.writes)] = OnFulfilled(@)])
  /\ UNCHANGED <<currentUser, hasRole, serverRoles, device, inits, listeners, running>>

\* The backend rejected the 'iot:log' call with e.
LogRejected(e) ==
  /\ sink.writes # <<>>
  /\ Last(sink.writes).settled = "pending"
  /\ sink' = AfterCallback([sink.writes EXCEPT ![Len(sink.writes)] = OnRejected(@, e)])
  /\ UNCHANGED <<currentUser, hasRole, serverRoles, device, inits, listeners, running>>

SinkNext ==
  \/ \E text \in Texts : SinkWrite(text)
  \/ LogResolved
  \/ \E e \in RejectValues : LogRejected(e)

SinkSpec == Init /\ [][SinkNext]_vars

(***************************************************************************)
(* Properties                                                              *)
(***************************************************************************)
Calls == 1..Len(inits)
Events(c) == 1..Len(c.trace)
Did(c, op) == \E k \in Events(c) : c.trace[k].op = op
Fresh == [id |-> Null, platform |-> Null, loginID |-> Null, pubsubChannel |-> Null]
BackendSteps == {"saveDevice", "addRole", "whoami", "saveLogin"}

\* C1: when a backend step that precedes the session update rejects (device
\* save, role grant, whoami, login save), the call is rejected, the rejection
\* is the last thing the call did, the call registered no handler and did not
\* set the session; and the session is all null as long as no call has got
\* past its login save.
C1_RejectedStepAborts ==
  /\ \A i \in Calls : \A k \in Events(inits[i]) :
       (inits[i].trace[k].op = "rejected" /\ inits[i].trace[k].name \in BackendSteps)
         => /\ k = Len(inits[i].trace)
            /\ inits[i].pc = "rejected"
            /\ ~Did(inits[i], "on") /\ ~Did(inits[i], "set")
            /\ \A h \in Range(listeners) : h.init # i
  /\ (\A i \in Calls : ~Did(inits[i], "set")) => device = Fresh /\ listeners = <<>>

\* A call whose login save was rejected after its registration steps resolved.
C1_Witness ==
  \E i \in Calls :
    /\ inits[i].register
    /\ Last(inits[i].trace) = Ev("rejected", "saveLogin", <<>>)
    /\ device = Fresh

\* C2: initDevice without a current user throws the login-required error and
\* does nothing else: no backend call, no handler, session unchanged.
C2_LoginRequiredFirst ==
  [][(currentUser = Null /\ Len(inits') = Len(inits) + 1)
       => /\ Last(inits').pc = "rejected"
          /\ Last(inits').trace = <<Ev("throw", "login required", <<>>)>>
          /\ device' = device /\ listeners' = listeners /\ running' = running]_vars

C2_Witness ==
  \E i \in Calls : inits[i].trace[1].op = "throw" /\ inits[i].pc = "rejected"

IsRegistrationSave(e, p) ==
  /\ e.op = "save"
  /\ \E r \in Range(e.recs) :
       /\ r.type = "iot_device"
       /\ <<"active", "true">> \in r.data
       /\ <<"secret", Platform(p).deviceSecret>> \in r.data

IsLoginSave(e) ==
  e.op = "save" /\ \E r \in Range(e.recs) : r.type = "iot_device_login"

\* C3: in a call by a user without the device role, once the login save has
\* been issued: exactly one record with active = true and the secret was saved,
\* in a save of its own, the role grant was invoked exactly once and whoami
\* was called, in the order save, grant, whoami, each resolved before the next
\* was issued and all before the login save.
C3_RegistrationBeforeLogin ==
  \A i \in Calls :
    LET c == inits[i] IN
    (c.register /\ \E k \in Events(c) : IsLoginSave(c.trace[k]))
      => /\ {k \in Events(c) : IsRegistrationSave(c.trace[k], c.platform)} = {1}
         /\ Len(c.trace[1].recs) = 1
         /\ c.trace[2] = Ev("resolved", "saveDevice", <<>>)
         /\ {k \in Events(c) : c.trace[k] = Ev("lambda", "iot:add-device-role", <<>>)} = {3}
         /\ c.trace[4] = Ev("resolved", "addRole", <<>>)
         /\ {k \in Events(c) : c.trace[k].op = "whoami"} = {5}
         /\ c.trace[6] = Ev("resolved", "whoami", <<>>)
         /\ {k \in Events(c) : IsLoginSave(c.trace[k])} = {7}

C3_Witness ==
  \E i \in Calls : inits[i].register /\ inits[i].pc = "saveLogin"

\* The handler the transport has just called.
Handler == On(running.channel)[running.at]
InCommandHandler == running.kind = "deliver" /\ Handler.kind = "command"
InStatusHandler == running.kind = "deliver" /\ Handler.kind = "status"

\* C4: no handler registered by initDevice throws back into the transport,
\* whatever the message.
C4_HandlersNeverThrow ==
  running.kind = "deliver" => ~running.outcome.threw

\* C5: the session fields id, platform, loginID and pubsubChannel are all null
\* or all set, in every state between two synchronous segments.
C5_AllNullOrAllSet ==
  LET fields == {device.id, device.platform, device.loginID, device.pubsubChannel}
  IN fields = {Null} \/ Null \notin fields

\* C6 as stated: once an initDevice call has resolved, the session never
\* changes again.
C6_WrittenOnce ==
  [][(\E i \in Calls : inits[i].pc = "resolved") => device' = device]_vars

\* C6 as amended: the session changes only in the segment of an initDevice
\* call that follows its login save, and then id, platform and pubsubChannel
\* become that call's values together; nothing else (reportStatus, a handler, a
\* settlement) modifies it.
C6_WrittenOnlyAfterLoginSave ==
  [][device' # device
       => \E i \in Calls :
            /\ inits[i].pc = "saveLogin" /\ inits'[i].pc = "report"
            /\ \A j \in Calls \ {i} : inits'[j] = inits[j]
            /\ device' = [id |-> inits[i].deviceID, platform |-> inits[i].platform,
                          loginID |-> device.loginID,
                          pubsubChannel |-> inits[i].pubsubChannel]]_vars

\* A second call has overwritten the session the first one set, and a status
\* report has read it since.
C6_Witness ==
  /\ Cardinality({i \in Calls : Did(inits[i], "set")}) > 1
  /\ running.kind = "report"
  /\ running.sent[1].payload.deviceID = device.id

\* C7 as stated: after a successful initDevice, an event on the status-request
\* channel triggers exactly one reportStatus call.
C7_ExactlyOneReport ==
  (/\ running.kind = "deliver" /\ running.channel = RequestStatus
   /\ running.at = Len(On(RequestStatus))
   /\ \E i \in Calls : inits[i].pc = "resolved")
    => running.reports = 1

\* C7 as amended: every status-request handler called for an event makes
\* exactly one reportStatus call, with metadata null, whatever the payload, and
\* there is one such handler per initDevice call that registered its hooks.
C7_OneReportPerHandler ==
  (running.kind = "deliver" /\ running.channel = RequestStatus)
    => /\ running.outcome = Outcome(<<>>, <<>>, <<Null>>, FALSE)
       /\ Len(running.sent) = 1
       /\ running.sent[1].payload.metadata = Null
       /\ running.reports = running.at
       /\ Len(On(RequestStatus)) = Cardinality({i \in Calls : Did(inits[i], "on")})

\* The only status-request handler has run for an event that carries a payload.
C7_Witness ==
  /\ InStatusHandler
  /\ running.action # Absent
  /\ Len(On(RequestStatus)) = 1
  /\ running.reports = 1
  /\ \E i \in Calls : inits[i].pc = "resolved"

\* C8: every login record is saved with 'iot-device: write, iot-manager: read',
\* and the device record of the registration with 'iot-device: write' and read
\* or write for iot-manager.
C8_RecordPolicies ==
  \A i \in Calls : \A k \in Events(inits[i]) : \A r \in Range(inits[i].trace[k].recs) :
    /\ r.type = "iot_device_login"
         => r.acl = {<<"iot-device", "write">>, <<"iot-manager", "read">>}
    /\ <<"active", "true">> \in r.data
         => /\ <<"iot-device", "write">> \in r.acl
            /\ \E level \in {"read", "write"} : <<"iot-manager", level>> \in r.acl

\* C9 as stated: a message 'iot-' + c, for c a key of the handler's
\* platform.action, makes the handler invoke c's callable once, without
\* arguments, and no other callable.
C9_MappedCommandInvokedOnce ==
  InCommandHandler =>
    \A c \in Platform(Handler.platform).action :
      running.action = Str(Prefix \o c) => running.outcome.invoked = <<Invocation(c, 0)>>

Regular(c) == c # <<>> /\ \A k \in 1..Len(c) : c[k] \notin LineTerminators

\* C9 as amended: the same, for the command names that are not empty and hold
\* no line terminator, in a mapping without an own key 'hasOwnProperty', and
\* for each handler registered on the channel.
C9_RegularCommandInvokedOnce ==
  InCommandHandler =>
    \A c \in Platform(Handler.platform).action :
      (/\ running.action = Str(Prefix \o c)
       /\ Regular(c)
       /\ HasOwnProperty \notin Platform(Handler.platform).action)
        => running.outcome.invoked = <<Invocation(c, 0)>>

\* 'iot-restart' has reached a handler whose platform maps restart and shutdown.
C9_Witness ==
  /\ InCommandHandler
  /\ running.action = Str(Prefix \o Restart)
  /\ {Restart, Shutdown} \subseteq Platform(Handler.platform).action
  /\ running.outcome.invoked = <<Invocation(Restart, 0)>>

\* C10: a message without an action makes the device-channel handler log one
\* error, invoke no callable, report nothing and return.
C10_MissingActionLogged ==
  (InCommandHandler /\ running.action = Absent)
    => /\ running.outcome = Outcome(<<>>, <<Log("error", <<>>)>>, <<>>, FALSE)
       /\ running.sent = <<>>

C10_Witness ==
  /\ InCommandHandler
  /\ running.action = Absent
  /\ running.outcome.logs = <<Log("error", <<>>)>>

\* The call got past its login check (it made the role test).
Tested(c) == c.trace[1].op # "throw"
SavedLogin(c) == \E k \in Events(c) : c.trace[k] = Ev("resolved", "saveLogin", <<>>)

\* C11: a call by a user who already holds the device role saves no record
\* with active = true and the secret, invokes no role grant and no whoami; its
\* first backend call is the save of a new login record, and once that save
\* has resolved the call has registered one handler on the status-request
\* channel and one on its device channel.
C11_RoleHolderSkipsRegistration ==
  \A i \in Calls :
    LET c == inits[i] IN
    (Tested(c) /\ ~c.register)
      => /\ \A k \in Events(c) :
              /\ ~IsRegistrationSave(c.trace[k], c.platform)
              /\ c.trace[k] # Ev("lambda", "iot:add-device-role", <<>>)
              /\ c.trace[k].op # "whoami"
         /\ {k \in Events(c) : IsLoginSave(c.trace[k])} = {1}
         /\ c.trace[1].recs[1].type = "iot_device_login"
         /\ SavedLogin(c)
              => /\ {k \in Events(c) : c.trace[k].op = "on"} = {3, 4}
                 /\ c.trace[3].name = RequestStatus
                 /\ c.trace[4].name = c.pubsubChannel
                 /\ SelectSeq(listeners, LAMBDA h : h.init = i) = Hooks(i, c)

\* A role holder's call has resolved: login save, both handlers, nothing else.
C11_Witness ==
  \E i \in Calls :
    /\ Tested(inits[i]) /\ ~inits[i].register
    /\ inits[i].pc = "resolved"
    /\ Cardinality({k \in 1..Len(listeners) : listeners[k].init = i}) = 2

\* What action.match(/^iot-(.+)$/) yields for the action of the message, a
\* value that is not a string matching nothing.
Matched(a) == IF a.type = "string" THEN Match(a.str) ELSE <<>>

\* C12: for a message on the device channel that carries an action, a handler
\* whose platform.action has no entry for the command of 'iot-<command>' logs
\* one warning naming the command, invokes no callable and returns; a handler
\* given an action that does not match the pattern invokes nothing, logs
\* nothing and returns.
C12_UnsupportedWarnedMismatchIgnored ==
  (InCommandHandler /\ Truthy(running.action))
    => LET match == Matched(running.action) IN
       /\ (match # <<>> /\ match[1] \notin Platform(Handler.platform).action)
            => running.outcome = Outcome(<<>>, <<Log("warn", match[1])>>, <<>>, FALSE)
       /\ match = <<>> => running.outcome = Outcome(<<>>, <<>>, <<>>, FALSE)

ReportCall == Ev("lambda", "iot:report-status", <<>>)

\* C13: each reportStatus call (a caller's, a handler's, initDevice's own)
\* issues one 'iot:report-status' call whose payload is status 'online', the
\* session id as it is at the call (null before any initDevice set it) and
\* the metadata argument (null when omitted); the promise an initDevice call
\* awaits settles as the backend settles that call.
C13_ReportStatusPayload ==
  /\ running.kind = "report" => running.reports = 1 /\ Len(running.outcome.reported) = 1
  /\ running.kind # "idle"
       => /\ Len(running.sent) = Len(running.outcome.reported)
          /\ \A j \in 1..Len(running.sent) :
               /\ running.sent[j].payload =
                    [deviceID |-> device.id, status |-> "online",
                     metadata |-> running.outcome.reported[j]]
               /\ running.sent[j].settles \in {"resolved", "rejected"}
  /\ \A i \in Calls :
       LET c == inits[i]
           issued == {k \in Events(c) : c.trace[k] = ReportCall}
       IN
       /\ Cardinality(issued) = IF c.reported = NoPayload THEN 0 ELSE 1
       /\ c.reported # NoPayload
            => /\ c.reported = [deviceID |-> c.deviceID, status |-> "online",
                                metadata |-> Null]
               /\ c.deviceID = device.id
               /\ \/ c.pc = "report" /\ Last(c.trace) = ReportCall
                  \/ c.pc = "resolved" /\ Last(c.trace) = Ev("resolved", "report", <<>>)
                  \/ c.pc = "rejected" /\ Last(c.trace) = Ev("rejected", "report", <<>>)

\* reportStatus('m1') called before any initDevice call set the session, and
\* the backend is going to reject it.
C13_Witness ==
  /\ running.kind = "report"
  /\ device.id = Null
  /\ running.sent = <<Sent([deviceID |-> Null, status |-> "online", metadata |-> "m1"],
                           "rejected")>>

\* C14: a status report made by the status-request handler that the backend
\* rejects has a rejection handler (the failure is caught and logged), so that
\* no promise is rejected with nobody handling it.
C14_NoUnhandledRejection ==
  InStatusHandler
    => \A j \in 1..Len(running.sent) :
         running.sent[j].settles = "rejected" => StatusHandlerCatches

BackendOps == {"save", "lambda", "whoami"}

\* C15: in each call, every backend call but the first is issued right after
\* the resolution of the one issued before it (for the status report: after
\* the hooks and the session update that follow the resolution of the login
\* save), and between a call and its resolution the call did nothing; the
\* hooks are registered only after the login save has resolved, first the
\* status-request one, then the device-channel one; the session is set only
\* after both; a call whose login save has not resolved has no handler
\* registered.
C15_StepsSequential ==
  \A i \in Calls :
    LET c == inits[i] IN
    /\ \A k \in Events(c) :
         /\ (c.trace[k].op \in BackendOps /\ k > 1)
              => c.trace[k - 1].op = IF c.trace[k] = ReportCall THEN "set" ELSE "resolved"
         /\ c.trace[k].op \in {"resolved", "rejected"}
              => /\ k > 1
                 /\ c.trace[k - 1] = IF c.trace[k].name = "report" THEN ReportCall
                                     ELSE CallOf(c, c.trace[k].name)
         /\ c.trace[k].op = "on"
              => \E j \in 1..(k - 1) : c.trace[j] = Ev("resolved", "saveLogin", <<>>)
         /\ c.trace[k].op = "set"
              => /\ k > 3
                 /\ c.trace[k - 3] = Ev("resolved", "saveLogin", <<>>)
                 /\ c.trace[k - 2] = Ev("on", RequestStatus, <<>>)
                 /\ c.trace[k - 1] = Ev("on", c.pubsubChannel, <<>>)
                 /\ {j \in Events(c) : c.trace[j].op = "on"} = {k - 2, k - 1}
    /\ (\E h \in Range(listeners) : h.init = i) => SavedLogin(c)
    /\ ~SavedLogin(c) => ~Did(c, "on") /\ ~Did(c, "set")

\* A registering call has gone through all its steps and awaits its report.
C15_Witness ==
  \E i \in Calls :
    /\ inits[i].register
    /\ inits[i].pc = "report"
    /\ Len(inits[i].trace) = 12

PastLoginSave == {i \in Calls : SavedLogin(inits[i])}

\* C16: every call that got past its login save, whatever calls did so before
\* it, has saved a login record of its own and registered one status-request
\* handler and one device-channel handler of its own, so that the channel
\* 'iot-request-status' has as many handlers as there are such calls (n when
\* n calls were made and all resolved) and a device channel as many as there
\* are such calls with its secret; and the session holds the values of the
\* call that registered last.
C16_NoDuplicateDetection ==
  /\ \A i \in PastLoginSave :
       LET c == inits[i] IN
       /\ Cardinality({k \in Events(c) : IsLoginSave(c.trace[k])}) = 1
       /\ SelectSeq(listeners, LAMBDA h : h.init = i)
            = <<[channel |-> RequestStatus, kind |-> "status", init |-> i,
                 platform |-> c.platform],
                [channel |-> pubsubChannelOf(Platform(c.platform).deviceSecret),
                 kind |-> "command", init |-> i, platform |-> c.platform]>>
  /\ Len(On(RequestStatus)) = Cardinality(PastLoginSave)
  /\ \A p \in PlatformIds :
       Len(On(pubsubChannelOf(Platform(p).deviceSecret)))
         = Cardinality({i \in PastLoginSave : inits[i].platform = p})
  /\ (\A i \in Calls : inits[i].pc = "resolved") => Len(On(RequestStatus)) = Len(inits)
  /\ listeners # <<>>
       => /\ device.id = inits[Last(listeners).init].deviceID
          /\ device.platform = Last(listeners).platform
          /\ device.pubsubChannel = Last(listeners).channel

\* Two calls have resolved, the second with another platform: two handlers on
\* the status-request channel and the session of the second call.
C16_Witness ==
  /\ Len(inits) = 2
  /\ inits[1].pc = "resolved" /\ inits[2].pc = "resolved"
  /\ inits[1].platform = "p1" /\ inits[2].platform = "p2"
  /\ Len(On(RequestStatus)) = 2
  /\ device.platform = "p2"

\* C17: every _write call has issued exactly one 'iot:log' call with the text
\* written; its callback is not invoked while that call is pending and has
\* been invoked exactly once when it has settled, with no error when it
\* resolved and with a serialized error description when it rejected; no
\* handler of the sink has thrown; and a _write call is made only when the
\* callback of the one before it has been invoked.
C17_OneLogCallOneCallback ==
  \A k \in 1..Len(sink.writes) :
    LET w == sink.writes[k] IN
    /\ w.rpc = <<[name |-> "iot:log", arg |-> w.text]>>
    /\ w.settled = "pending" => w.callbacks = <<>>
    /\ w.settled = "resolved" => w.callbacks = <<JsUndefined>>
    /\ w.settled = "rejected"
         => Len(w.callbacks) = 1 /\ w.callbacks[1].type = "string"
    /\ ~w.threw
    /\ k < Len(sink.writes) => Len(w.callbacks) = 1

RejectedCalls == {i \in Calls : inits[i].pc = "rejected"}
RejectedAtReport(c) == Last(c.trace) = Ev("rejected", "report", <<>>)

\* C18 as stated: a call whose promise is rejected has registered no handler
\* and has not written the session.
C18_RejectedLeavesNothing ==
  \A i \in RejectedCalls :
    /\ \A h \in Range(listeners) : h.init # i
    /\ ~Did(inits[i], "set")

\* C18 as amended: a call rejected at its login check or at a backend step up
\* to the login save has registered no handler and has not written the
\* session; a call rejected at its trailing status report has registered both
\* its handlers and has written the session, and neither is undone: the
\* handlers stay, and the session holds that call's values unless a later call
\* has written it since.
C18_RejectedAtReportKeepsState ==
  \A i \in RejectedCalls :
    LET c == inits[i] IN
    IF RejectedAtReport(c)
    THEN /\ SelectSeq(listeners, LAMBDA h : h.init = i) = Hooks(i, c)
         /\ Did(c, "set")
         /\ device.id = c.deviceID
         /\ Last(listeners).init = i
              => device.platform = c.platform /\ device.pubsubChannel = c.pubsubChannel
    ELSE /\ \A h \in Range(listeners) : h.init # i
         /\ ~Did(c, "set") /\ ~Did(c, "on")
         /\ c.reported = NoPayload

\* The only call made was rejected at its status report: its two handlers are
\* registered and the session is set.
C18_Witness ==
  /\ Len(inits) = 1
  /\ inits[1].pc = "rejected" /\ RejectedAtReport(inits[1])
  /\ Len(listeners) = 2
  /\ device.id # Null /\ device.pubsubChannel = inits[1].pubsubChannel

\* C19: id, platform and pubsubChannel are null together or set together, and
\* when they are set, pubsubChannel is 'iot-' followed by the SHA-256 hex
\* digest of the deviceSecret of the platform held in the session, and all
\* three are the values of one initDevice call that got past its login save,
\* however the calls interleaved.
C19_SessionFromOneCall ==
  /\ device.platform = Null => device.id = Null /\ device.pubsubChannel = Null
  /\ device.platform # Null
       => /\ device.id # Null
          /\ device.pubsubChannel = "iot-" \o Sha256Hex(Platform(device.platform).deviceSecret)
          /\ \E i \in PastLoginSave :
               /\ device.id = inits[i].deviceID
               /\ device.platform = inits[i].platform
               /\ device.pubsubChannel = inits[i].pubsubChannel

\* Two calls with different platforms interleaved: the second was made while
\* the first awaited a backend step, and its login save resolved first.
C19_Witness ==
  /\ Len(inits) = 2
  /\ inits[1].platform # inits[2].platform
  /\ SavedLogin(inits[1]) /\ SavedLogin(inits[2])
  /\ listeners[1].init = 2 /\ Last(listeners).init = 1
  /\ device.platform = inits[1].platform

\* C20: the status report an initDevice call makes is issued after the call
\* has set the session, in the same segment; its deviceID is the id of the
\* user the call was made for, which is the id in the session, and not null;
\* and in a call that has resolved it is the last backend call.
C20_InitialReportAfterSessionSet ==
  \A i \in Calls :
    LET c == inits[i] IN
    \A k \in Events(c) :
      c.trace[k] = ReportCall
        => /\ k > 1 /\ c.trace[k - 1] = Ev("set", "device", <<>>)
           /\ c.reported.deviceID = c.deviceID
           /\ c.reported.deviceID = device.id
           /\ c.reported.deviceID \in Users
           /\ c.reported.deviceID # Null
           /\ \A j \in (k + 1)..Len(c.trace) : c.trace[j].op \notin BackendOps
           /\ c.pc = "resolved"
                => k = Len(c.trace) - 1 /\ Last(c.trace) = Ev("resolved", "report", <<>>)

\* A registering call has resolved: its report carried the user's id.
C20_Witness ==
  \E i \in Calls :
    /\ inits[i].register
    /\ inits[i].pc = "resolved"
    /\ inits[i].reported = [deviceID |-> currentUser, status |-> "online", metadata |-> Null]
    /\ currentUser # Null

====
